---- MODULE Spec2Model ----
(***************************************************************************)
(* Flo-Fi: the page (CSV upload, localStorage cache) and the dashboard     *)
(* (five reducers over the transaction rows and the payoff simulator).     *)
(*                                                                         *)
(* Representation of JavaScript values:                                    *)
(*   - a string is a sequence of one-character strings;                    *)
(*   - a number is a fixed-point integer in thousandths, so that        *)
(*     -100 is -100000 and a sub-cent amount such as -0.005 is -5; a       *)
(*     number that may be NaN is wrapped as [nan, n];                      *)
(*   - a Date is [valid, y, m, d] with m the 0-based month of getMonth(),  *)
(*     read in a browser whose local time is UTC;                          *)
(*   - an object used as a dictionary (Record<string, ...>) is a sequence  *)
(*     of [k, v] entries in insertion order, as Object.entries lists it.   *)
(***************************************************************************)
EXTENDS Integers, Sequences, FiniteSets, TLC

VARIABLES dashboard, rows, err, isLoading, storage, pending,
          balance, apr, minPay, extra, payoff,
          monthly, byCard, smoking, spikes, dayPattern,
          loop

pageVars == <<rows, err, isLoading, storage, pending>>
inputVars == <<balance, apr, minPay, extra>>
memoVars == <<monthly, byCard, smoking, spikes, dayPattern>>
vars == <<dashboard, rows, err, isLoading, storage, pending,
          balance, apr, minPay, extra, payoff,
          monthly, byCard, smoking, spikes, dayPattern, loop>>

(***************************************************************************)
(* Numbers                                                                 *)
(***************************************************************************)
\* the number d.ccc (d dollars and ccc thousandths) in the representation
Fixed(d, ccc) == d * 1000 + ccc

Num(n) == [nan |-> FALSE, n |-> n]
NaN == [nan |-> TRUE, n |-> 0]

Abs(x) == IF x < 0 THEN -x ELSE x

Min(a, b) == IF a < b THEN a ELSE b

\* Math.round(value*100)/100: to the nearest cent, a half going up
Round2(v) == ((v + 5) \div 10) * 10

RECURSIVE GCD(_, _)
GCD(a, b) == IF b = 0 THEN a ELSE GCD(b, a % b)

\* the quotient num/den as a reduced fraction
Frac(num, den) == LET g == GCD(num, den) IN
  IF g = 0 THEN [num |-> 0, den |-> 1] ELSE [num |-> num \div g, den |-> den \div g]

\* x * f for a number x and a fraction f, truncated to the representation
\* (computed in two parts so that the product stays within 32 bits)
MulFrac(x, f) == (x \div f.den) * f.num + ((x % f.den) * f.num) \div f.den

(***************************************************************************)
(* Strings                                                                 *)
(***************************************************************************)
Uppers == <<"A","B","C","D","E","F","G","H","I","J","K","L","M",
            "N","O","P","Q","R","S","T","U","V","W","X","Y","Z">>
Lowers == <<"a","b","c","d","e","f","g","h","i","j","k","l","m",
            "n","o","p","q","r","s","t","u","v","w","x","y","z">>
DigitChars == <<"0","1","2","3","4","5","6","7","8","9">>

IndexOf(seq, c) == IF \E i \in 1..Len(seq) : seq[i] = c
                   THEN CHOOSE i \in 1..Len(seq) : seq[i] = c
                   ELSE 0

\* the lower-case letter of each upper-case letter
ToLower == [c \in {Uppers[i] : i \in 1..Len(Uppers)} |-> Lowers[IndexOf(Uppers, c)]]

LowerChar(c) == IF c \in DOMAIN ToLower THEN ToLower[c] ELSE c

toLowerCase(s) == [i \in 1..Len(s) |-> LowerChar(s[i])]

includes(s, sub) ==
  \E i \in 0..(Len(s) - Len(sub)) : SubSeq(s, i + 1, i + Len(sub)) = sub

IsDigit(c) == IndexOf(DigitChars, c) # 0

RECURSIVE Digits(_)
Digits(n) == IF n < 10 THEN <<DigitChars[n + 1]>>
             ELSE Digits(n \div 10) \o <<DigitChars[(n % 10) + 1]>>

RECURSIVE DigitsValue(_)
DigitsValue(s) == IF s = <<>> THEN 0
                  ELSE 10 * DigitsValue(SubSeq(s, 1, Len(s) - 1))
                       + (IndexOf(DigitChars, s[Len(s)]) - 1)

AllDigits(s) == s # <<>> /\ \A i \in 1..Len(s) : IsDigit(s[i])

\* String(x) of a whole number that may be NaN
NumToString(x) == IF x.nan THEN <<"N","a","N">> ELSE Digits(x.n)

\* s.padStart(2, "0")
padStart2(s) == IF Len(s) >= 2 THEN s
                ELSE IF Len(s) = 1 THEN <<"0">> \o s ELSE <<"0","0">>

\* s.padStart(4, "0")
RECURSIVE padStart4(_)
padStart4(s) == IF Len(s) >= 4 THEN s ELSE padStart4(<<"0">> \o s)

RECURSIVE trimStart(_)
trimStart(s) == IF s # <<>> /\ Head(s) = " " THEN trimStart(Tail(s)) ELSE s

RECURSIVE trimEnd(_)
trimEnd(s) == IF s # <<>> /\ s[Len(s)] = " "
              THEN trimEnd(SubSeq(s, 1, Len(s) - 1)) ELSE s

trim(s) == trimEnd(trimStart(s))

\* s.replace(/<[^>]*>/g, ''): from a "<" through the next ">", removed
RECURSIVE stripTags(_)
stripTags(s) ==
  IF s = <<>> THEN <<>>
  ELSE IF Head(s) = "<" /\ \E j \in 2..Len(s) : s[j] = ">"
       THEN LET j == CHOOSE k \in 2..Len(s) :
                       s[k] = ">" /\ \A l \in 2..(k - 1) : s[l] # ">"
            IN stripTags(SubSeq(s, j + 1, Len(s)))
       ELSE <<Head(s)>> \o stripTags(Tail(s))

\* UTF-16 order of the characters that occur in the sorted keys
CodeOrder == <<",","-","0","1","2","3","4","5","6","7","8","9","N","a">>
Code(c) == IndexOf(CodeOrder, c)

\* a < b as JavaScript compares strings: by code unit, a prefix first
RECURSIVE StrLess(_, _)
StrLess(a, b) ==
  IF b = <<>> THEN FALSE
  ELSE IF a = <<>> THEN TRUE
  ELSE IF Head(a) = Head(b) THEN StrLess(Tail(a), Tail(b))
  ELSE Code(Head(a)) < Code(Head(b))

(***************************************************************************)
(* Dates                                                                   *)
(***************************************************************************)
InvalidDate == [valid |-> FALSE, y |-> 0, m |-> 0, d |-> 0]
DateOf(y, m, d) == [valid |-> TRUE, y |-> y, m |-> m, d |-> d]

getFullYear(dt) == IF dt.valid THEN Num(dt.y) ELSE NaN
getMonth(dt) == IF dt.valid THEN Num(dt.m) ELSE NaN
getDate(dt) == IF dt.valid THEN Num(dt.d) ELSE NaN
\* isNaN(date.getTime())
isNaNTime(dt) == ~dt.valid

Plus(x, k) == IF x.nan THEN NaN ELSE Num(x.n + k)

IsLeap(y) == (y % 4 = 0 /\ y % 100 # 0) \/ y % 400 = 0
DaysInMonth(y, m) == IF m = 2 THEN (IF IsLeap(y) THEN 29 ELSE 28)
                     ELSE IF m \in {4, 6, 9, 11} THEN 30 ELSE 31

\* new Date(s) of a string: "YYYY-MM-DD", alone or followed by
\* "THH:MM:SS.sssZ"; anything else is an Invalid Date
ParseDate(s) ==
  LET dateOnly == Len(s) = 10
      dateTime == Len(s) = 24 /\ s[11] = "T" /\ s[24] = "Z"
                  /\ s[14] = ":" /\ s[17] = ":" /\ s[20] = "."
                  /\ AllDigits(SubSeq(s, 12, 13)) /\ AllDigits(SubSeq(s, 15, 16))
                  /\ AllDigits(SubSeq(s, 18, 19)) /\ AllDigits(SubSeq(s, 21, 23))
      shape == (dateOnly \/ dateTime) /\ s[5] = "-" /\ s[8] = "-"
               /\ AllDigits(SubSeq(s, 1, 4)) /\ AllDigits(SubSeq(s, 6, 7))
               /\ AllDigits(SubSeq(s, 9, 10))
  IN IF ~shape THEN InvalidDate
     ELSE LET y == DigitsValue(SubSeq(s, 1, 4))
              m == DigitsValue(SubSeq(s, 6, 7))
              d == DigitsValue(SubSeq(s, 9, 10))
          IN IF m \in 1..12 /\ d >= 1 /\ d <= DaysInMonth(y, m)
             THEN DateOf(y, m - 1, d) ELSE InvalidDate

\* Date.prototype.toJSON: toISOString() of a valid date, null of an invalid one
toISOString(dt) ==
  padStart4(Digits(dt.y)) \o <<"-">> \o padStart2(Digits(dt.m + 1)) \o <<"-">>
    \o padStart2(Digits(dt.d))
    \o <<"T","0","0",":","0","0",":","0","0",".","0","0","0","Z">>

(***************************************************************************)
(* Dictionaries: sequences of [k, v] entries in insertion order            *)
(***************************************************************************)
Has(map, k) == \E i \in 1..Len(map) : map[i].k = k

Get(map, k) == map[CHOOSE i \in 1..Len(map) : map[i].k = k].v

\* map[k] = v: replaces the value of an existing key, appends a new key
Put(map, k, v) ==
  IF Has(map, k)
  THEN [i \in 1..Len(map) |-> IF map[i].k = k THEN [k |-> k, v |-> v] ELSE map[i]]
  ELSE Append(map, [k |-> k, v |-> v])

\* the position the entry e takes in the sorted sequence sorted: after
\* every entry that is not greater (the sort is stable)
RECURSIVE Insert(_, _)
Insert(sorted, e) ==
  IF sorted = <<>> THEN <<e>>
  ELSE IF StrLess(e.k \o <<",">>, Head(sorted).k \o <<",">>)
       THEN <<e>> \o sorted
       ELSE <<Head(sorted)>> \o Insert(Tail(sorted), e)

\* Object.entries(map).sort(): each entry [k, v] is compared as the string
\* "k,v"; the keys of a dictionary differ, so "k," decides
RECURSIVE SortEntries(_)
SortEntries(map) ==
  IF map = <<>> THEN <<>>
  ELSE Insert(SortEntries(SubSeq(map, 1, Len(map) - 1)), map[Len(map)])

(***************************************************************************)
(* Dashboard: configuration                                                *)
(***************************************************************************)
\* The repository holds two Dashboard modules: components/Dashboard.tsx, the
\* starter with a fixed payoff stub, and the module with the payoff inputs
\* (unnamed/part_000). dashboard is the one the import of the page
\* (import Dashboard from "@/components/Dashboard") resolves to.
Starter == "components/Dashboard.tsx"
Interactive == "unnamed/part_000"
Dashboards == {Starter, Interactive}

SMOKING_DENYLIST == <<<<"c","h","e","v","r","o","n">>, <<"s","h","e","l","l">>>>

CARD_MAP == <<
  [k |-> "Housing & Insurance", v |-> <<
      <<"g","e","i","c","o">>,
      <<"e","x","t","r","a"," ","s","p","a","c","e"," ","s","t","o","r","a","g","e">>>>],
  [k |-> "Connectivity & Utilities", v |-> <<
      <<"s","t","a","r","l","i","n","k">>,
      <<"v","e","r","i","z","o","n">>,
      <<"a","t","&","t">>,
      <<"a","t","t">>>>],
  [k |-> "Digital & Lifestyle", v |-> <<
      <<"p","r","i","m","e"," ","v","i","d","e","o">>,
      <<"a","m","a","z","o","n"," ","d","i","g","i","t","a","l">>,
      <<"d","r","e","a","m","h","o","s","t">>,
      <<"a","p","p","l","e">>,
      <<"i","t","u","n","e","s">>,
      <<"i","c","l","o","u","d">>,
      <<"n","a","m","e","c","h","e","a","p">>,
      <<"s","p","o","t","i","f","y">>,
      <<"n","e","t","f","l","i","x">>,
      <<"a","u","d","i","b","l","e">>,
      <<"g","o","o","g","l","e"," ","o","n","e">>,
      <<"w","i","k","i","p","e","d","i","a">>,
      <<"n","e","w"," ","y","o","r","k"," ","t","i","m","e","s">>,
      <<"x","b","o","x">>,
      <<"n","i","a","n","t","i","c">>>>],
  [k |-> "AI & Tools", v |-> <<
      <<"c","u","r","s","o","r">>,
      <<"c","l","a","u","d","e">>,
      <<"o","p","e","n","a","i">>,
      <<"c","h","a","t","g","p","t">>,
      <<"a","n","t","h","r","o","p","i","c">>>>] >>

\* CARD_MAP of the starter: no "att", and "whop" among the AI & Tools keywords
StarterCARD_MAP == <<
  CARD_MAP[1],
  [k |-> "Connectivity & Utilities", v |-> <<
      <<"s","t","a","r","l","i","n","k">>,
      <<"v","e","r","i","z","o","n">>,
      <<"a","t","&","t">>>>],
  CARD_MAP[3],
  [k |-> "AI & Tools", v |-> <<
      <<"c","u","r","s","o","r">>,
      <<"c","l","a","u","d","e">>,
      <<"o","p","e","n","a","i">>,
      <<"w","h","o","p">>,
      <<"c","h","a","t","g","p","t">>,
      <<"a","n","t","h","r","o","p","i","c">>>>] >>

\* the CARD_MAP of the Dashboard module d
CardMap(d) == IF d = Starter THEN StarterCARD_MAP ELSE CARD_MAP

\* the categories the spike and the day-of-month reducers leave out
skip == {<<"t","r","a","n","s","f","e","r">>,
         <<"l","o","a","n"," ","r","e","p","a","y","m","e","n","t">>,
         <<"c","r","e","d","i","t"," ","c","a","r","d"," ","p","a","y","m","e","n","t">>}

(***************************************************************************)
(* Dashboard: the payoff simulator and the reducers                        *)
(***************************************************************************)
\* mutant of monthKey: the month not padded to two digits
monthKeyNoPad(d) ==
  NumToString(getFullYear(d)) \o <<"-">> \o NumToString(Plus(getMonth(d), 1))

monthKey(d) ==
  LET y == getFullYear(d)
      m == padStart2(NumToString(Plus(getMonth(d), 1)))
  IN NumToString(y) \o <<"-">> \o m

\* the first argument is not read: the test is on row.Merchant alone
inCat(category, row, merchantList) ==
  \E i \in 1..Len(merchantList) :
    includes(toLowerCase(row.Merchant), toLowerCase(merchantList[i]))

\* the month cap of the loop of payoffCalc
PayoffCap == 240

\* one pass through the body of the while loop of payoffCalc; r is the
\* monthly rate, payment is minPay + extra
\* mutant of payoffStep: the payment added to the interest total
payoffStepSumsPayments(st, r, payment) ==
  LET int == MulFrac(st.bal, r)
      pay == Min(st.bal + int, payment)
  IN [bal |-> st.bal + int - pay,
      months |-> st.months + 1,
      interest |-> st.interest + pay]

\* mutant of payoffStep: the payment not held to what is owed
payoffStepNoMin(st, r, payment) ==
  LET int == MulFrac(st.bal, r)
  IN [bal |-> st.bal + int - payment,
      months |-> st.months + 1,
      interest |-> st.interest + int]

payoffStep(st, r, payment) ==
  LET int == MulFrac(st.bal, r)
      pay == Min(st.bal + int, payment)
  IN [bal |-> st.bal + int - pay,
      months |-> st.months + 1,
      interest |-> st.interest + int]

\* the month cap of the loop of the payoff stub of the starter
StarterCap == 120

\* mutant of payoffCond: a balance of 0 still iterated
payoffCondNonStrict(st, cap) == st.bal >= 0 /\ st.months < cap

\* the condition of the while loop, cap the number the months are held under
payoffCond(st, cap) == st.bal > 0 /\ st.months < cap

\* the most passes the model follows the loop for
MaxIterations == 256

\* the loop from st, followed for at most n passes: st when the condition
\* fails, else the body and on (by halves, to keep the evaluation shallow)
RECURSIVE Times(_, _, _, _, _)
Times(st, n, r, payment, cap) ==
  IF ~payoffCond(st, cap) \/ n = 0 THEN st
  ELSE IF n = 1 THEN payoffStep(st, r, payment)
  ELSE Times(Times(st, n \div 2, r, payment, cap), n - n \div 2, r, payment, cap)

\* the locals of payoffCalc when the loop ends, or after MaxIterations
\* passes of a loop that has not ended
payoffLoop(bal0, aprFrac, minP, ext, cap) ==
  Times([bal |-> bal0, months |-> 0, interest |-> 0], MaxIterations,
        Frac(aprFrac.num, aprFrac.den * 12), minP + ext, cap)

\* aprFrac is the annual rate as a fraction (apr/100)
payoffCalc(bal0, aprFrac, minP, ext) ==
  LET end == payoffLoop(bal0, aprFrac, minP, ext, PayoffCap)
  IN [months |-> end.months, interest |-> Round2(end.interest)]

\* payoffCalc(balance, apr/100, minPay, extra)
payoffOf(b, a, mp, ex) == payoffCalc(b, Frac(a, 100 * 1000), mp, ex)

\* the locals of the payoff stub of the starter when its loop ends:
\* bal0 = 6900, apr = 0.20, min = 300, extra = 300
starterLoop ==
  payoffLoop(Fixed(6900, 0), Frac(20, 100), Fixed(300, 0), Fixed(300, 0), StarterCap)

\* the payoff memo of the starter
starterPayoff ==
  [months |-> starterLoop.months, interest |-> Round2(starterLoop.interest)]

\* 1) Monthly income vs spend
\* mutant of monthlyAdd: the spend takes the signed Amount
monthlyAddSigned(cur, r) ==
  IF r.Amount > 0
  THEN [cur EXCEPT !.income = @ + r.Amount]
  ELSE [cur EXCEPT !.spend = @ + r.Amount]

\* the two accumulating statements of the loop of monthly
monthlyAdd(cur, r) ==
  IF r.Amount > 0
  THEN [cur EXCEPT !.income = @ + r.Amount]
  ELSE [cur EXCEPT !.spend = @ + Abs(r.Amount)]

RECURSIVE monthlyLoop(_, _)
monthlyLoop(rs, map) ==
  IF rs = <<>> THEN map
  ELSE LET r == Head(rs) IN
    IF isNaNTime(r.Date) THEN monthlyLoop(Tail(rs), map)
    ELSE LET k == monthKey(r.Date)
             cur == IF Has(map, k) THEN Get(map, k) ELSE [income |-> 0, spend |-> 0]
         IN monthlyLoop(Tail(rs), Put(map, k, monthlyAdd(cur, r)))

monthlyOf(rs) ==
  LET s == SortEntries(monthlyLoop(rs, <<>>)) IN
  [i \in 1..Len(s) |->
     [Month |-> s[i].k, income |-> s[i].v.income, spend |-> s[i].v.spend]]

\* 2) Four-card buckets
ruleMatches(r, merchants) ==
  inCat(r.Category, r, merchants) \/ inCat(r.Merchant, r, merchants)

\* the bucket the inner loop adds the amount of r to: the first rule of
\* CARD_MAP that matches, "Other" when none does
RECURSIVE cardFrom(_, _, _)
cardFrom(r, i, map) ==
  IF i > Len(map) THEN "Other"
  ELSE IF ruleMatches(r, map[i].v) THEN map[i].k
  ELSE cardFrom(r, i + 1, map)

cardOf(r, map) == cardFrom(r, 1, map)

\* mutant of spendAmount: a credit counted as spend
spendAmountAbs(r) == Abs(r.Amount)

spendAmount(r) == IF r.Amount < 0 THEN Abs(r.Amount) ELSE 0

RECURSIVE byCardLoop(_, _, _)
byCardLoop(rs, sums, map) ==
  IF rs = <<>> THEN sums
  ELSE LET r == Head(rs)
           card == cardOf(r, map)
       IN byCardLoop(Tail(rs), Put(sums, card, Get(sums, card) + spendAmount(r)), map)

\* byCard of the Dashboard module d
byCardOf(rs, d) ==
  LET sums == byCardLoop(rs, << [k |-> "Housing & Insurance", v |-> 0],
                                [k |-> "Connectivity & Utilities", v |-> 0],
                                [k |-> "Digital & Lifestyle", v |-> 0],
                                [k |-> "AI & Tools", v |-> 0],
                                [k |-> "Other", v |-> 0] >>, CardMap(d))
  IN [i \in 1..Len(sums) |-> [name |-> sums[i].k, value |-> Round2(sums[i].v)]]

\* 3) Smoking heuristic
\* the filter of the starter: no denylist
starterSmokingFilter(r) ==
  /\ includes(toLowerCase(r.Category), <<"g","a","s">>)
  /\ r.Amount <= -Fixed(100, 0)

smokingFilter(r) ==
  /\ includes(toLowerCase(r.Category), <<"g","a","s">>)
  /\ r.Amount <= -Fixed(100, 0)
  /\ ~\E i \in 1..Len(SMOKING_DENYLIST) :
        includes(toLowerCase(r.Merchant), SMOKING_DENYLIST[i])

RECURSIVE perMonthLoop(_, _)
perMonthLoop(rs, perMonth) ==
  IF rs = <<>> THEN perMonth
  ELSE LET r == Head(rs)
           k == monthKey(r.Date)
           old == IF Has(perMonth, k) THEN Get(perMonth, k) ELSE 0
       IN perMonthLoop(Tail(rs), Put(perMonth, k, old + Abs(r.Amount)))

RECURSIVE sumTotals(_)
sumTotals(series) ==
  IF series = <<>> THEN 0
  ELSE sumTotals(SubSeq(series, 1, Len(series) - 1)) + series[Len(series)].total

\* smoking of the Dashboard module d
smokingOf(rs, d) ==
  LET filtered == IF d = Starter THEN SelectSeq(rs, starterSmokingFilter)
                  ELSE SelectSeq(rs, smokingFilter)
      s == SortEntries(perMonthLoop(filtered, <<>>))
      series == [i \in 1..Len(s) |-> [Month |-> s[i].k, total |-> Round2(s[i].v)]]
  IN [series |-> series, total |-> Round2(sumTotals(series)), count |-> Len(filtered)]

\* 4) > $1,000 spikes
\* mutant of spikeFilter: a charge of exactly $1,000 not counted
spikeFilterStrict(r) ==
  r.Amount < -Fixed(1000, 0) /\ toLowerCase(r.Category) \notin skip

spikeFilter(r) == r.Amount <= -Fixed(1000, 0) /\ toLowerCase(r.Category) \notin skip

RECURSIVE byMonthLoop(_, _)
byMonthLoop(rs, byMonth) ==
  IF rs = <<>> THEN byMonth
  ELSE LET k == monthKey(Head(rs).Date)
           old == IF Has(byMonth, k) THEN Get(byMonth, k) ELSE 0
       IN byMonthLoop(Tail(rs), Put(byMonth, k, old + 1))

spikesOf(rs) ==
  LET s == SortEntries(byMonthLoop(SelectSeq(rs, spikeFilter), <<>>)) IN
  [i \in 1..Len(s) |-> [Month |-> s[i].k, count |-> s[i].v]]

\* 5) Day-of-month pattern for > $500
dayFilter(r) == r.Amount <= -Fixed(500, 0) /\ toLowerCase(r.Category) \notin skip

RECURSIVE daysLoop(_, _)
daysLoop(rs, days) ==
  IF rs = <<>> THEN days
  ELSE LET d == getDate(Head(rs).Date)
           old == IF Has(days, d) THEN Get(days, d) ELSE 0
       IN daysLoop(Tail(rs), Put(days, d, old + 1))

\* mutant of dayPatternOf: the days numbered from 0
dayPatternZeroBased(rs) ==
  LET days == daysLoop(SelectSeq(rs, dayFilter), <<>>) IN
  [i \in 1..31 |->
     [day |-> i - 1, count |-> IF Has(days, Num(i)) THEN Get(days, Num(i)) ELSE 0]]

dayPatternOf(rs) ==
  LET days == daysLoop(SelectSeq(rs, dayFilter), <<>>) IN
  [i \in 1..31 |-> [day |-> i, count |-> IF Has(days, Num(i)) THEN Get(days, Num(i)) ELSE 0]]

(***************************************************************************)
(* Page: values read from a CSV file or from the cache                     *)
(***************************************************************************)
\* a field of a parsed CSV row or of a cached JSON item
Str(s) == [t |-> "str", s |-> s, n |-> 0]
NumV(n) == [t |-> "num", s |-> <<>>, n |-> n]
Undef == [t |-> "undef", s |-> <<>>, n |-> 0]
NullV == [t |-> "null", s |-> <<>>, n |-> 0]

\* !v is false
Truthy(v) == ~(\/ v.t \in {"undef", "null"}
               \/ (v.t = "str" /\ v.s = <<>>)
               \/ (v.t = "num" /\ v.n = 0))

\* a state value that may be null
Null == [null |-> TRUE, val |-> <<>>]
Some(v) == [null |-> FALSE, val |-> v]

\* new Date(v): a string is parsed, a number counts milliseconds from the
\* epoch (every number of the representation falls on the epoch's day or the
\* day before), null is 0, undefined is NaN
newDate(v) ==
  IF v.t = "str" THEN ParseDate(v.s)
  ELSE IF v.t = "num" THEN (IF v.n >= 0 THEN DateOf(1970, 0, 1) ELSE DateOf(1969, 11, 31))
  ELSE IF v.t = "null" THEN DateOf(1970, 0, 1)
  ELSE InvalidDate

validateDate(dateStr) ==
  IF ~Truthy(dateStr) THEN Null
  ELSE LET date == newDate(dateStr) IN
       IF isNaNTime(date) THEN Null ELSE Some(date)

\* String(n) of a number
NumberToString(n) ==
  LET a == Abs(n)
      whole == Digits(a \div 1000)
      f == a % 1000
      frac == IF f = 0 THEN <<>>
              ELSE IF f % 100 = 0 THEN <<".">> \o Digits(f \div 100)
              ELSE IF f % 10 = 0 THEN <<".">> \o padStart2(Digits(f \div 10))
              ELSE <<".">> \o SubSeq(padStart4(Digits(f)), 2, 4)
  IN (IF n < 0 THEN <<"-">> ELSE <<>>) \o whole \o frac

\* Number(s) of a string: blank is 0; digits, with an optional sign and up to
\* three decimals, are that number; any other text is NaN
StringToNumber(s) ==
  LET u == trim(s)
      neg == u # <<>> /\ Head(u) = "-"
      body == IF neg THEN Tail(u) ELSE u
      dot == IndexOf(body, ".")
      whole == IF dot = 0 THEN body ELSE SubSeq(body, 1, dot - 1)
      frac == IF dot = 0 THEN <<>> ELSE SubSeq(body, dot + 1, Len(body))
      scaled == IF Len(frac) = 0 THEN 0
                ELSE IF Len(frac) = 1 THEN 100 * DigitsValue(frac)
                ELSE IF Len(frac) = 2 THEN 10 * DigitsValue(frac)
                ELSE DigitsValue(frac)
  IN IF u = <<>> THEN Num(0)
     ELSE IF AllDigits(whole) /\ Len(frac) <= 3 /\ (dot = 0 \/ AllDigits(frac))
          THEN Num((IF neg THEN -1 ELSE 1) * (1000 * DigitsValue(whole) + scaled))
          ELSE NaN

\* Number(v)
ToNumber(v) ==
  IF v.t = "num" THEN Num(v.n)
  ELSE IF v.t = "str" THEN StringToNumber(v.s)
  ELSE IF v.t = "null" THEN Num(0)
  ELSE NaN

validateAmount(amount) ==
  LET num == ToNumber(amount) IN IF num.nan THEN 0 ELSE num.n

sanitizeString(str) ==
  IF str.t # "str"
  THEN (IF Truthy(str) THEN NumberToString(str.n) ELSE <<>>)
  ELSE trim(stripTags(str.s))

(***************************************************************************)
(* Page: the cache in localStorage                                         *)
(***************************************************************************)
\* the item "monarch_csv_cached": absent, a text that is no JSON, or a JSON
\* document (null, an array, an object with its version and data members)
NoItem == [t |-> "absent", doc |-> <<>>]
TextItem == [t |-> "text", doc |-> <<>>]
JsonItem(doc) == [t |-> "json", doc |-> doc]

NoData == [t |-> "none", items |-> <<>>]
OtherData == [t |-> "other", items |-> <<>>]
ArrayData(items) == [t |-> "array", items |-> items]

DocNull == [kind |-> "null", version |-> Undef, data |-> NoData, items |-> <<>>]
DocArray(items) == [kind |-> "array", version |-> Undef, data |-> NoData, items |-> items]
DocObject(version, data) ==
  [kind |-> "object", version |-> version, data |-> data, items |-> <<>>]

\* JSON.stringify of a row: a Date is written by toJSON
RowToJson(r) ==
  [Date |-> IF r.Date.valid THEN Str(toISOString(r.Date)) ELSE NullV,
   Amount |-> NumV(r.Amount),
   Category |-> Str(r.Category),
   Merchant |-> Str(r.Merchant),
   Account |-> Str(r.Account)]

\* JSON.stringify(dataToStore); the timestamp member is never read back
Stringify(validRows) ==
  JsonItem(DocObject(Str(<<"1",".","0">>),
                     ArrayData([i \in 1..Len(validRows) |-> RowToJson(validRows[i])])))

\* the value of data after "Handle both old and new cache formats"
cacheData(cached) ==
  IF cached.kind = "object" /\ Truthy(cached.version) /\ cached.data.t # "none"
  THEN cached.data
  ELSE IF cached.kind = "array" THEN ArrayData(cached.items) ELSE OtherData

\* the body of the try block throws: JSON.parse of a text that is no JSON,
\* cached.version of null, data.map of a value that is no array
cacheThrows(item) ==
  \/ item.t = "text"
  \/ item.doc.kind = "null"
  \/ cacheData(item.doc).t # "array"

restoredRow(d) ==
  [Date |-> newDate(d.Date),
   Amount |-> validateAmount(d.Amount),
   Category |-> sanitizeString(d.Category),
   Merchant |-> sanitizeString(d.Merchant),
   Account |-> sanitizeString(d.Account)]

restoredData(item) ==
  LET data == cacheData(item.doc).items IN
  [i \in 1..Len(data) |-> restoredRow(data[i])]

(***************************************************************************)
(* Inputs: the rows of the CSV files, the files, the caches found at start *)
(***************************************************************************)
RawRow(date, merchant, category, amount) ==
  [Date |-> date, Merchant |-> merchant, Category |-> category,
   Amount |-> amount, Account |-> Undef]

Row01 == RawRow(Str(<<"2","0","2","4","-","0","1","-","1","5">>),
                Str(<<"S","h","e","l","l">>),
                Str(<<"G","a","s">>), NumV(-Fixed(120, 0)))
Row02 == RawRow(Str(<<"2","0","2","4","-","0","1","-","2","0">>),
                Str(<<"C","h","e","v","r","o","n">>),
                Str(<<"G","a","s">>), NumV(-Fixed(150, 0)))
Row03 == RawRow(Str(<<"2","0","2","4","-","0","3","-","0","5">>),
                Str(<<"V","e","r","i","z","o","n">>),
                Str(<<"U","t","i","l","i","t","i","e","s">>), NumV(-Fixed(80, 0)))
Row04 == RawRow(Str(<<"2","0","2","4","-","1","0","-","0","2">>),
                Str(<<"C","o","s","t","c","o"," ","G","a","s">>),
                Str(<<"G","A","S"," ","&"," ","F","u","e","l">>), NumV(-Fixed(100, 0)))
Row05 == RawRow(Str(<<"2","0","2","4","-","1","0","-","2","0">>),
                Str(<<"Q","u","i","k"," ","S","t","o","p">>),
                Str(<<"G","a","s">>), NumV(-Fixed(100, 5)))
Row06 == RawRow(Str(<<"2","0","2","3","-","1","2","-","3","1">>),
                Str(<<"C","o","s","t","c","o">>),
                Str(<<"G","a","s","o","l","i","n","e">>), NumV(-Fixed(99, 995)))
Row07 == RawRow(Str(<<"2","0","2","4","-","0","2","-","0","1">>),
                Str(<<"B","e","s","t"," ","B","u","y">>),
                Str(<<"S","h","o","p","p","i","n","g">>), NumV(-Fixed(1000, 0)))
Row08 == RawRow(Str(<<"2","0","2","4","-","1","0","-","0","2">>),
                Str(<<"B","a","n","k">>),
                Str(<<"T","r","a","n","s","f","e","r">>), NumV(-Fixed(2500, 0)))
Row09 == RawRow(Str(<<"2","0","2","4","-","0","2","-","1","0">>),
                Str(<<"B","a","n","k">>),
                Str(<<"T","r","a","n","s","f","e","r","s">>), NumV(-Fixed(500, 0)))
Row10 == RawRow(Str(<<"2","0","2","4","-","0","1","-","1","5">>),
                Str(<<"E","m","p","l","o","y","e","r">>),
                Str(<<"P","a","y","c","h","e","c","k">>), NumV(Fixed(3000, 0)))
Row11 == RawRow(Str(<<"2","0","2","4","-","0","3","-","0","5">>),
                Str(<<"C","u","r","s","o","r"," ","A","p","p","l","e">>),
                Str(<<"S","o","f","t","w","a","r","e">>), NumV(-Fixed(20, 5)))
Row12 == RawRow(Str(<<"2","0","2","3","-","1","2","-","3","1">>),
                Str(<<"C","o","r","n","e","r"," ","S","t","o","r","e">>),
                Str(<<"N","e","t","f","l","i","x">>), NumV(-Fixed(15, 490)))
\* an empty Date cell (Papa's dynamicTyping reads it as null)
RowNoDate == RawRow(NullV,
                    Str(<<"C","o","s","t","c","o">>),
                    Str(<<"G","a","s">>), NumV(-Fixed(130, 0)))
\* a Date cell that is no date
RowBadDate == RawRow(Str(<<"1","3","/","4","5","/","2","0","2","4">>),
                     Str(<<"C","o","s","t","c","o">>),
                     Str(<<"G","a","s">>), NumV(-Fixed(130, 0)))
\* markup around the merchant, a trailing blank, an Amount cell that is no number
RowMarkup == RawRow(Str(<<"2","0","2","4","-","0","1","-","1","5">>),
                    Str(<<"<","b",">","G","E","I","C","O","<","/","b",">"," ">>),
                    Str(<<"I","n","s","u","r","a","n","c","e">>), Str(<<"n","/","a">>))

RawRows == {Row01, Row02, Row03, Row04, Row05, Row06,
            Row07, Row08, Row09, Row10, Row11, Row12,
            RowNoDate, RowBadDate, RowMarkup}

\* the longest CSV file of RawRows
MaxRows == 2
\* the longest run of rows with an invalid date in a CSV file
MaxBad == 6

SeqsUpTo(S, n) == UNION {[1..k -> S] : k \in 0..n}

AllFields == {"Date", "Merchant", "Category", "Amount", "Account"}

\* what Papa.parse hands to complete: the file's size in bytes, the number of
\* parse errors, the header fields and the parsed rows
File(size, errors, fields, data) ==
  [size |-> size, errors |-> errors, fields |-> fields, data |-> data]

WithoutField(r, field) ==
  IF field = "Date" THEN [r EXCEPT !.Date = Undef] ELSE [r EXCEPT !.Amount = Undef]

\* k rows with an invalid date, then one good row
BadRun(k) == [i \in 1..(k + 1) |-> IF i <= k THEN RowBadDate ELSE Row03]

Files ==
  {File(2048, 0, AllFields, d) : d \in SeqsUpTo(RawRows, MaxRows)}
  \cup {File(2048, 0, AllFields, BadRun(k)) : k \in 1..MaxBad}
  \cup {File(10 * 1024 * 1024, 0, AllFields, <<Row03>>),
        File(10 * 1024 * 1024 + 1, 0, AllFields, <<Row03>>),
        File(2048, 1, AllFields, <<Row03>>),
        File(2048, 0, AllFields \ {"Date"}, <<WithoutField(Row03, "Date")>>),
        File(2048, 0, AllFields \ {"Amount"}, <<WithoutField(Row03, "Amount")>>)}

\* an item of a cache that this page did not write
CacheItem(date, merchant, category, amount) ==
  [Date |-> date, Amount |-> amount, Category |-> category,
   Merchant |-> merchant, Account |-> Undef]

\* a cached item whose Date is a text that is no date
ItemBadDate == CacheItem(Str(<<"g","a","r","b","a","g","e">>),
                         Str(<<"C","o","s","t","c","o">>),
                         Str(<<"G","a","s">>), NumV(-Fixed(130, 0)))
\* a cached item with no Date member
ItemNoDate == CacheItem(Undef,
                        Str(<<"B","e","s","t"," ","B","u","y">>),
                        Str(<<"S","h","o","p","p","i","n","g">>), Str(<<"-","1","2","0","0">>))
\* a cached item whose Date is null
ItemNullDate == CacheItem(NullV,
                          Str(<<"B","a","n","k">>),
                          Str(<<"F","e","e","s">>), NumV(-Fixed(600, 0)))
ItemGood == CacheItem(Str(<<"2","0","2","4","-","1","0","-","0","2","T","0","0",":","0","0",":","0","0",".","0","0","0","Z">>),
                      Str(<<"Q","u","i","k"," ","S","t","o","p">>),
                      Str(<<"G","a","s">>), NumV(-Fixed(110, 0)))

(***************************************************************************)
(* Page: state and handlers                                                *)
(***************************************************************************)
\* the state of a Dashboard that is not rendered (rows is null)
Unmounted == "unmounted"

dashVars == <<balance, apr, minPay, extra, payoff,
              monthly, byCard, smoking, spikes, dayPattern>>

\* the starter has no payoff inputs
NoInput == "none"

\* loop holds the locals bal, months and interest of a call of the payoff
\* loop that is followed pass by pass; a handler that calls payoffCalc runs
\* it to its end, and loop is NoCall
NoCall == "no call"

\* the first render of <Dashboard rows={rs}/>: the useState defaults, where
\* the module has them, and every useMemo computed
Mount(rs) ==
  /\ IF dashboard = Starter
     THEN /\ balance' = NoInput /\ apr' = NoInput
          /\ minPay' = NoInput /\ extra' = NoInput
          /\ payoff' = starterPayoff
     ELSE /\ balance' = Fixed(6900, 0)
          /\ apr' = Fixed(20, 0)
          /\ minPay' = Fixed(300, 0)
          /\ extra' = Fixed(300, 0)
          /\ payoff' = payoffOf(Fixed(6900, 0), Fixed(20, 0), Fixed(300, 0), Fixed(300, 0))
  /\ monthly' = monthlyOf(rs)
  /\ byCard' = byCardOf(rs, dashboard)
  /\ smoking' = smokingOf(rs, dashboard)
  /\ spikes' = spikesOf(rs)
  /\ dayPattern' = dayPatternOf(rs)

\* mutant of processRows: a valid row put in front of the rows before it
RECURSIVE processRowsUnshift(_, _, _, _)
processRowsUnshift(data, index, validRows, errors) ==
  IF index > Len(data) THEN [validRows |-> validRows, errors |-> errors]
  ELSE LET r == data[index]
           date == validateDate(r.Date)
       IN IF date.null
          THEN processRowsUnshift(data, index + 1, validRows, Append(errors, index))
          ELSE processRowsUnshift(data, index + 1,
                 <<[Date |-> date.val,
                    Amount |-> validateAmount(r.Amount),
                    Category |-> sanitizeString(r.Category),
                    Merchant |-> sanitizeString(r.Merchant),
                    Account |-> sanitizeString(r.Account)]>> \o validRows,
                 errors)

\* res.data.forEach of complete: errors holds the numbers of the rows with
\* an invalid date
RECURSIVE processRows(_, _, _, _)
processRows(data, index, validRows, errors) ==
  IF index > Len(data) THEN [validRows |-> validRows, errors |-> errors]
  ELSE LET r == data[index]
           date == validateDate(r.Date)
       IN IF date.null
          THEN processRows(data, index + 1, validRows, Append(errors, index))
          ELSE processRows(data, index + 1,
                 Append(validRows,
                        [Date |-> date.val,
                         Amount |-> validateAmount(r.Amount),
                         Category |-> sanitizeString(r.Category),
                         Merchant |-> sanitizeString(r.Merchant),
                         Account |-> sanitizeString(r.Account)]),
                 errors)

\* the caches a page may find when it starts: none, a text that is no JSON,
\* JSON null, an object of some other shape, caches in the old format (a
\* bare array), and caches this page wrote for an earlier upload
InitStorages ==
  {NoItem, TextItem, JsonItem(DocNull), JsonItem(DocObject(Undef, NoData)),
   JsonItem(DocArray(<<>>)),
   JsonItem(DocArray(<<ItemBadDate, ItemGood>>)),
   JsonItem(DocArray(<<ItemNoDate, ItemNullDate>>)),
   Stringify(processRows(<<Row03>>, 1, <<>>, <<>>).validRows),
   Stringify(processRows(<<Row05, Row07>>, 1, <<>>, <<>>).validRows)}

Init ==
  /\ dashboard \in Dashboards
  /\ loop = NoCall
  /\ rows = Null
  /\ err = "null"
  /\ isLoading = FALSE
  /\ pending = Null
  /\ storage \in InitStorages
  /\ balance = Unmounted /\ apr = Unmounted /\ minPay = Unmounted
  /\ extra = Unmounted /\ payoff = Unmounted
  /\ monthly = Unmounted /\ byCard = Unmounted /\ smoking = Unmounted
  /\ spikes = Unmounted /\ dayPattern = Unmounted

\* the file input is rendered while rows is null and enabled while isLoading
\* is false; pending is the file Papa.parse is reading
onFile(f) ==
  /\ rows.null /\ ~isLoading
  /\ IF f.size > 10 * 1024 * 1024
     THEN /\ err' = "File too large. Please upload a file smaller than 10MB."
          /\ UNCHANGED <<rows, isLoading, storage, pending>>
     ELSE /\ isLoading' = TRUE
          /\ err' = "null"
          /\ pending' = Some(f)
          /\ UNCHANGED <<rows, storage>>
  /\ UNCHANGED <<dashboard, loop, dashVars>>

\* a return of complete after setErr(msg)
Reject(msg) ==
  /\ err' = msg
  /\ UNCHANGED <<rows, storage>>
  /\ UNCHANGED dashVars

\* the complete callback of Papa.parse; localStorage.setItem either stores
\* the item or throws (the quota), which is caught
complete ==
  /\ ~pending.null
  /\ isLoading' = FALSE
  /\ pending' = Null
  /\ UNCHANGED <<dashboard, loop>>
  /\ \E res \in {pending.val} : \E p \in {processRows(res.data, 1, <<>>, <<>>)} :
        IF res.errors > 0 THEN Reject("CSV parsing errors")
        ELSE IF res.data = <<>> THEN Reject("CSV file appears to be empty.")
        ELSE IF ~({"Date", "Amount"} \subseteq res.fields)
             THEN Reject("Missing required columns")
        ELSE IF Len(p.errors) > 5 THEN Reject("Too many validation errors")
        ELSE IF Len(p.validRows) = 0 THEN Reject("No valid data rows found in CSV.")
        ELSE /\ rows' = Some(p.validRows)
             /\ err' = "null"
             /\ Mount(p.validRows)
             /\ \/ storage' = Stringify(p.validRows)
                \/ UNCHANGED storage

\* the error callback of Papa.parse: the file could not be read
error ==
  /\ ~pending.null
  /\ isLoading' = FALSE
  /\ pending' = Null
  /\ err' = "Failed to parse CSV"
  /\ UNCHANGED <<rows, storage>>
  /\ UNCHANGED <<dashboard, loop, dashVars>>

\* the button is rendered while rows is null and enabled while isLoading is
\* false
loadCache ==
  /\ rows.null /\ ~isLoading
  /\ UNCHANGED <<dashboard, loop, isLoading, pending>>
  /\ IF storage.t = "absent"
     THEN /\ err' = "No cached data found."
          /\ UNCHANGED <<rows, storage>>
          /\ UNCHANGED dashVars
     ELSE IF cacheThrows(storage)
     THEN /\ err' = "Failed to load cached data. Please upload a new CSV file."
          /\ storage' = NoItem
          /\ UNCHANGED rows
          /\ UNCHANGED dashVars
     ELSE \E data \in {restoredData(storage)} :
          /\ rows' = Some(data)
          /\ err' = "null"
          /\ Mount(data)
          /\ UNCHANGED storage

Next ==
  \/ \E f \in Files : onFile(f)
  \/ complete
  \/ error
  \/ loadCache

Spec == Init /\ [][Next]_vars

(***************************************************************************)
(* Dashboard: the four inputs of the payoff simulator                      *)
(***************************************************************************)
Balances == {0, Fixed(0, 50), Fixed(1000, 0), Fixed(6900, 0)}
Aprs == {0, Fixed(20, 0), Fixed(24, 900)}
MinPays == {0, Fixed(25, 0), Fixed(300, 0)}
Extras == {0, Fixed(50, 0), Fixed(300, 0)}

\* useMemo(() => payoffCalc(balance, apr/100, minPay, extra),
\*         [balance, apr, minPay, extra]) in the render with inputs b, a, mp, ex
\* mutant of payoffMemo: extra missing from the dependency list
payoffMemoStale(b, a, mp, ex) ==
  IF <<b, a, mp>> # <<balance, apr, minPay>>
  THEN payoffOf(b, a, mp, ex)
  ELSE payoff

payoffMemo(b, a, mp, ex) ==
  IF <<b, a, mp, ex>> # <<balance, apr, minPay, extra>>
  THEN payoffOf(b, a, mp, ex)
  ELSE payoff

setBalance(v) ==
  /\ ~rows.null /\ dashboard = Interactive
  /\ balance' = v
  /\ payoff' = payoffMemo(v, apr, minPay, extra)
  /\ UNCHANGED <<apr, minPay, extra>>
  /\ UNCHANGED <<dashboard, loop, pageVars, memoVars>>

setApr(v) ==
  /\ ~rows.null /\ dashboard = Interactive
  /\ apr' = v
  /\ payoff' = payoffMemo(balance, v, minPay, extra)
  /\ UNCHANGED <<balance, minPay, extra>>
  /\ UNCHANGED <<dashboard, loop, pageVars, memoVars>>

setMinPay(v) ==
  /\ ~rows.null /\ dashboard = Interactive
  /\ minPay' = v
  /\ payoff' = payoffMemo(balance, apr, v, extra)
  /\ UNCHANGED <<balance, apr, extra>>
  /\ UNCHANGED <<dashboard, loop, pageVars, memoVars>>

setExtra(v) ==
  /\ ~rows.null /\ dashboard = Interactive
  /\ extra' = v
  /\ payoff' = payoffMemo(balance, apr, minPay, v)
  /\ UNCHANGED <<balance, apr, minPay>>
  /\ UNCHANGED <<dashboard, loop, pageVars, memoVars>>

\* the dashboard right after the upload of the one-row file <<Row03>>
InitPayoff ==
  LET rs == processRows(<<Row03>>, 1, <<>>, <<>>).validRows IN
  /\ dashboard \in Dashboards
  /\ loop = NoCall
  /\ rows = Some(rs)
  /\ err = "null"
  /\ isLoading = FALSE
  /\ pending = Null
  /\ storage = Stringify(rs)
  /\ IF dashboard = Starter
     THEN /\ balance = NoInput /\ apr = NoInput
          /\ minPay = NoInput /\ extra = NoInput
          /\ payoff = starterPayoff
     ELSE /\ balance = Fixed(6900, 0)
          /\ apr = Fixed(20, 0)
          /\ minPay = Fixed(300, 0)
          /\ extra = Fixed(300, 0)
          /\ payoff = payoffOf(Fixed(6900, 0), Fixed(20, 0), Fixed(300, 0), Fixed(300, 0))
  /\ monthly = monthlyOf(rs)
  /\ byCard = byCardOf(rs, dashboard)
  /\ smoking = smokingOf(rs, dashboard)
  /\ spikes = spikesOf(rs)
  /\ dayPattern = dayPatternOf(rs)

NextPayoff ==
  \/ \E v \in Balances : setBalance(v)
  \/ \E v \in Aprs : setApr(v)
  \/ \E v \in MinPays : setMinPay(v)
  \/ \E v \in Extras : setExtra(v)

SpecPayoff == InitPayoff /\ [][NextPayoff]_vars

(***************************************************************************)
(* Properties                                                              *)
(***************************************************************************)
RECURSIVE SumSeq(_)
SumSeq(s) == IF s = <<>> THEN 0 ELSE Head(s) + SumSeq(Tail(s))

Buckets == {"Housing & Insurance", "Connectivity & Utilities",
            "Digital & Lifestyle", "AI & Tools", "Other"}

\* the value byCard shows for the bucket b
BucketValue(b) == byCard[CHOOSE i \in 1..Len(byCard) : byCard[i].name = b].value

\* s contains the keyword kw, whatever the case of either
ContainsNoCase(s, kw) == includes(toLowerCase(s), toLowerCase(kw))

\* a keyword of the rule occurs in the record's Category or in its Merchant
KeywordRule(r, keywords) ==
  \E i \in 1..Len(keywords) :
    ContainsNoCase(r.Category, keywords[i]) \/ ContainsNoCase(r.Merchant, keywords[i])

\* the bucket of the first rule with a keyword in Category or Merchant
KeywordBucket(r) ==
  LET map == CardMap(dashboard) IN
  IF \E i \in 1..Len(map) : KeywordRule(r, map[i].v)
  THEN map[CHOOSE i \in 1..Len(map) :
             /\ KeywordRule(r, map[i].v)
             /\ \A j \in 1..(i - 1) : ~KeywordRule(r, map[j].v)].k
  ELSE "Other"

\* the spend of the negative records of rs that f puts in the bucket b
SpendIn(rs, f, b) ==
  SumSeq([i \in 1..Len(rs) |->
            IF f[i] = b /\ rs[i].Amount < 0 THEN -rs[i].Amount ELSE 0])

\* C1: every record's spend goes to the bucket of the first rule of CARD_MAP
\* with a keyword contained, case-insensitively, in the record's Category or
\* in its Merchant, and to "Other" only when no rule has one: each bucket
\* shows the rounded spend of the records so assigned.
C1_CategoryOrMerchant ==
  ~rows.null =>
    LET rs == rows.val
        f == [i \in 1..Len(rs) |-> KeywordBucket(rs[i])]
    IN \A b \in Buckets : BucketValue(b) = Round2(SpendIn(rs, f, b))

\* one cent in the representation
OneCent == Fixed(0, 10)

\* C2: the five bucket totals add up to the spend of the negative records
\* to within one cent per bucket; each negative record is counted in exactly
\* one bucket and a record with Amount >= 0 adds nothing.
C2_BucketsPartitionSpend ==
  ~rows.null =>
    LET rs == rows.val
        spend == SumSeq([i \in 1..Len(rs) |->
                           IF rs[i].Amount < 0 THEN -rs[i].Amount ELSE 0])
        shown == SumSeq([i \in 1..Len(byCard) |-> byCard[i].value])
    IN /\ {byCard[i].name : i \in 1..Len(byCard)} = Buckets
       /\ Len(byCard) = Cardinality(Buckets)
       /\ Abs(shown - spend) <= Cardinality(Buckets) * OneCent
       /\ \E f \in [1..Len(rs) -> Buckets] :
            \A b \in Buckets : Abs(BucketValue(b) - SpendIn(rs, f, b)) <= OneCent

\* C2 witness: rows with a credit and a sub-cent debit, shown rounded
C2_Witness ==
  /\ ~rows.null
  /\ \E i \in 1..Len(rows.val) : rows.val[i].Amount > 0
  /\ \E i \in 1..Len(rows.val) :
       rows.val[i].Amount < 0 /\ rows.val[i].Amount % OneCent # 0
  /\ SumSeq([i \in 1..Len(byCard) |-> byCard[i].value])
       # SumSeq([i \in 1..Len(rows.val) |->
                   IF rows.val[i].Amount < 0 THEN -rows.val[i].Amount ELSE 0])

HasValidDate(r) == r.Date.valid

\* C3: a record with an invalid Date is left out of the smoking output, the
\* spike dataset and the day-of-month dataset: each is what the records with
\* a valid Date alone give.
C3_InvalidDateExcluded ==
  ~rows.null =>
    LET dated == SelectSeq(rows.val, HasValidDate) IN
    /\ smoking = smokingOf(dated, dashboard)
    /\ spikes = spikesOf(dated)
    /\ dayPattern = dayPatternOf(dated)

\* C4: every record of the rows handed to the Dashboard has a valid Date.
C4_RowsWellFormed ==
  ~rows.null => \A i \in 1..Len(rows.val) : rows.val[i].Date.valid

\* the indices of the records of rs
Indices(rs) == 1..Len(rs)

\* a record over the large-charge threshold (in thousandths) whose category
\* is none of the three left out
LargeCharge(r, threshold) ==
  /\ r.Amount <= -threshold
  /\ toLowerCase(r.Category) \notin skip

\* C5: the day-of-month dataset has exactly 31 entries, days 1..31 in order,
\* every count a natural number: the number of records with that day that
\* are at or below -500 and not in a left-out category, 0 when there is none.
C5_DayPatternDense ==
  ~rows.null =>
    LET rs == rows.val IN
    /\ Len(dayPattern) = 31
    /\ \A i \in 1..Len(dayPattern) :
         /\ dayPattern[i].day = i
         /\ dayPattern[i].count \in Nat
         /\ dayPattern[i].count =
              Cardinality({j \in Indices(rs) :
                             /\ LargeCharge(rs[j], Fixed(500, 0))
                             /\ rs[j].Date.valid
                             /\ rs[j].Date.d = i})

\* C5 witness: a day with a count and a day without
C5_Witness ==
  /\ ~rows.null
  /\ \E i \in 1..Len(dayPattern) : dayPattern[i].count > 0
  /\ \E i \in 1..Len(dayPattern) : dayPattern[i].count = 0

\* the <<year, month>> pairs, month 1..12, of the records with a valid Date
ValidMonths(rs) ==
  {<<rs[i].Date.y, rs[i].Date.m + 1>> : i \in {j \in Indices(rs) : rs[j].Date.valid}}

Earlier(a, b) == a[1] < b[1] \/ (a[1] = b[1] /\ a[2] < b[2])

\* the key YYYY-MM of a <<year, month>> pair
YearMonth(ym) ==
  Digits(ym[1]) \o <<"-">> \o (IF ym[2] < 10 THEN <<"0">> ELSE <<>>) \o Digits(ym[2])

\* C6: the month keys of the monthly dataset are strictly increasing, as
\* strings and as months, and the dataset has exactly one entry per distinct
\* month among the records with a valid Date, with no other entry.
C6_MonthsStrictlyIncreasing ==
  ~rows.null =>
    LET months == ValidMonths(rows.val) IN
    /\ Len(monthly) = Cardinality(months)
    /\ \A i \in 1..Len(monthly) :
         \E ym \in months :
           /\ monthly[i].Month = YearMonth(ym)
           /\ Cardinality({o \in months : Earlier(o, ym)}) = i - 1
    /\ \A i \in 1..(Len(monthly) - 1) :
         StrLess(monthly[i].Month, monthly[i + 1].Month)

\* C6 witness: two records of one year, the later month first, one with a
\* one-digit month and one with a two-digit month
C6_Witness ==
  /\ ~rows.null
  /\ Len(rows.val) >= 2
  /\ rows.val[1].Date.valid /\ rows.val[2].Date.valid
  /\ rows.val[1].Date.y = rows.val[2].Date.y
  /\ rows.val[1].Date.m + 1 >= 10
  /\ rows.val[2].Date.m + 1 < 10
  /\ Len(monthly) = 2

\* the sum over the records of rs with a valid Date in the month ym that
\* satisfy the sign test: of Amount (credit) or of |Amount| (debit)
MonthSum(rs, ym, credit) ==
  SumSeq([j \in Indices(rs) |->
            IF /\ rs[j].Date.valid
               /\ <<rs[j].Date.y, rs[j].Date.m + 1>> = ym
               /\ (rs[j].Amount > 0) = credit
            THEN (IF credit THEN rs[j].Amount ELSE -rs[j].Amount)
            ELSE 0])

\* C7: for each month, income is the sum of Amount over the month's records
\* with Amount > 0 and spend the sum of |Amount| over those with Amount <= 0;
\* a zero-amount record still has its month's entry; a record with an
\* invalid Date changes nothing.
C7_MonthlySums ==
  ~rows.null =>
    LET rs == rows.val
        months == ValidMonths(rs)
    IN /\ Len(monthly) = Cardinality(months)
       /\ \A ym \in months :
            \E i \in 1..Len(monthly) :
              /\ monthly[i].Month = YearMonth(ym)
              /\ monthly[i].income = MonthSum(rs, ym, TRUE)
              /\ monthly[i].spend = MonthSum(rs, ym, FALSE)

\* C7 witness: a month with both income and spend
C7_Witness ==
  /\ ~rows.null
  /\ \E i \in 1..Len(monthly) : monthly[i].income > 0 /\ monthly[i].spend > 0

\* a gas record of at least $100
GasCharge(r) ==
  ContainsNoCase(r.Category, <<"g","a","s">>) /\ r.Amount <= -Fixed(100, 0)

Denylisted(r) ==
  \/ includes(toLowerCase(r.Merchant), <<"c","h","e","v","r","o","n">>)
  \/ includes(toLowerCase(r.Merchant), <<"s","h","e","l","l">>)

\* C8: a record survives exactly when its Category contains "gas" in any
\* case, its Amount is <= -100 and its lower-cased Merchant contains neither
\* "chevron" nor "shell"; count is the number of survivors, the series has
\* one entry per month key of a survivor with the rounded sum of their
\* |Amount|, total is the sum of the series totals, and with no survivor the
\* output is {series: [], total: 0, count: 0}.
C8_SmokingSurvivors ==
  ~rows.null =>
    LET rs == rows.val
        S == {i \in Indices(rs) : GasCharge(rs[i]) /\ ~Denylisted(rs[i])}
        keys == {monthKey(rs[i].Date) : i \in S}
        series == smoking.series
    IN /\ smoking.count = Cardinality(S)
       /\ Len(series) = Cardinality(keys)
       /\ \A k \in keys :
            \E e \in 1..Len(series) :
              /\ series[e].Month = k
              /\ series[e].total =
                   Round2(SumSeq([i \in Indices(rs) |->
                            IF i \in S /\ monthKey(rs[i].Date) = k
                            THEN -rs[i].Amount ELSE 0]))
       /\ smoking.total = SumSeq([e \in 1..Len(series) |-> series[e].total])
       /\ (S = {} => smoking = [series |-> <<>>, total |-> 0, count |-> 0])

Cap == IF dashboard = Starter THEN StarterCap ELSE PayoffCap

\* C10: the simulator's loop ends, with balance <= 0 or with the month
\* counter at the cap, which lies between 200 and 240; the months shown never
\* exceed the cap; and with no payment at all, a positive rate and a positive
\* balance, the months shown are the cap.
C10_PayoffTerminates ==
  ~rows.null =>
    LET end == IF dashboard = Starter THEN starterLoop
               ELSE payoffLoop(balance, Frac(apr, 100 * 1000), minPay, extra, PayoffCap)
    IN /\ ~payoffCond(end, Cap)
       /\ end.bal <= 0 \/ end.months = Cap
       /\ Cap \in 200..240
       /\ payoff.months = end.months
       /\ payoff.months <= Cap
       /\ (dashboard = Interactive /\ minPay = 0 /\ extra = 0 /\ apr > 0 /\ balance > 0
             => payoff.months = Cap)

(***************************************************************************)
(* The payoff loop, pass by pass                                           *)
(***************************************************************************)
\* payoff while the call that computes it has not returned
Computing == [computing |-> TRUE]

\* the arguments of the call: the four inputs, or the constants of the stub
LoopBalance == IF dashboard = Starter THEN Fixed(6900, 0) ELSE balance
LoopApr == IF dashboard = Starter THEN Frac(20, 100) ELSE Frac(apr, 100 * 1000)
LoopPayment ==
  IF dashboard = Starter THEN Fixed(300, 0) + Fixed(300, 0) ELSE minPay + extra

\* const r = apr/12
LoopRate == Frac(LoopApr.num, LoopApr.den * 12)

\* a call of the payoff loop at its first line, for any inputs
InitLoop ==
  LET rs == processRows(<<Row03>>, 1, <<>>, <<>>).validRows IN
  /\ dashboard \in Dashboards
  /\ rows = Some(rs)
  /\ err = "null"
  /\ isLoading = FALSE
  /\ pending = Null
  /\ storage = Stringify(rs)
  /\ IF dashboard = Starter
     THEN /\ balance = NoInput /\ apr = NoInput
          /\ minPay = NoInput /\ extra = NoInput
     ELSE /\ balance \in Balances /\ apr \in Aprs
          /\ minPay \in MinPays /\ extra \in Extras
  /\ payoff = Computing
  /\ loop = [bal |-> LoopBalance, months |-> 0, interest |-> 0]
  /\ monthly = monthlyOf(rs)
  /\ byCard = byCardOf(rs, dashboard)
  /\ smoking = smokingOf(rs, dashboard)
  /\ spikes = spikesOf(rs)
  /\ dayPattern = dayPatternOf(rs)

\* one pass of the while loop
payoffIterate ==
  /\ payoff = Computing
  /\ payoffCond(loop, Cap)
  /\ loop' = payoffStep(loop, LoopRate, LoopPayment)
  /\ UNCHANGED <<dashboard, pageVars, inputVars, payoff, memoVars>>

\* return { months, interest: Math.round(interest*100)/100 }
payoffReturn ==
  /\ payoff = Computing
  /\ ~payoffCond(loop, Cap)
  /\ payoff' = [months |-> loop.months, interest |-> Round2(loop.interest)]
  /\ UNCHANGED <<dashboard, pageVars, inputVars, loop, memoVars>>

NextLoop == payoffIterate \/ payoffReturn

SpecLoop == InitLoop /\ [][NextLoop]_vars

\* C11: in every pass the payment is at most the balance plus the month's
\* interest, so the balance after every pass is >= 0; and when the loop ends
\* with months below the cap, the balance is exactly 0.
C11_BalanceNeverNegative ==
  /\ loop.bal >= 0
  /\ (~payoffCond(loop, Cap) /\ loop.months < Cap => loop.bal = 0)

\* C11 witness: a call that returned below the cap after a last payment
\* smaller than minPay + extra
C11_Witness ==
  /\ payoff # Computing
  /\ loop.months > 0 /\ loop.months < Cap
  /\ loop.bal = 0
  /\ loop.interest > 0

\* the pass-by-pass loop returns what payoffCalc computes
LoopAgrees ==
  payoff # Computing =>
    payoff = (IF dashboard = Starter THEN starterPayoff
              ELSE payoffOf(balance, apr, minPay, extra))

\* C12: after any sequence of edits of the four inputs, from the defaults
\* 6900 / 20 / 300 / 300, the payoff shown is payoffCalc(balance, apr/100,
\* minPay, extra) of the current inputs alone (of the defaults, which are
\* its constants, in the starter), so that equal inputs show equal results.
C12_PayoffOfCurrentInputs ==
  ~rows.null =>
    payoff = (IF dashboard = Starter
              THEN payoffOf(Fixed(6900, 0), Fixed(20, 0), Fixed(300, 0), Fixed(300, 0))
              ELSE payoffOf(balance, apr, minPay, extra))

\* C12 witness: every input edited away from its default, and another result
C12_Witness ==
  /\ ~rows.null /\ dashboard = Interactive
  /\ balance # Fixed(6900, 0) /\ apr # Fixed(20, 0)
  /\ minPay # Fixed(300, 0) /\ extra # Fixed(300, 0)
  /\ payoff.months > 0
  /\ payoff # payoffOf(Fixed(6900, 0), Fixed(20, 0), Fixed(300, 0), Fixed(300, 0))

\* C13: a call with balance = 0 makes no pass of the loop and returns
\* months = 0 and interest = 0, whatever the rate and the payments.
C13_ZeroBalance ==
  (dashboard = Interactive /\ balance = 0) =>
    /\ loop = [bal |-> 0, months |-> 0, interest |-> 0]
    /\ ~ENABLED payoffIterate
    /\ payoff \in {Computing, [months |-> 0, interest |-> 0]}

\* C13 witness: a returned call with balance 0, a rate and a payment
C13_Witness ==
  /\ dashboard = Interactive /\ balance = 0
  /\ apr > 0 /\ minPay > 0 /\ extra > 0
  /\ payoff = [months |-> 0, interest |-> 0]

\* the locals at the end of the loop for the current balance and rate and
\* the payments mp and ex
EndWith(mp, ex) == payoffLoop(balance, Frac(apr, 100 * 1000), mp, ex, PayoffCap)

\* C15: for the same balance and rate, a total payment minPay + extra that
\* is at least as large gives no more months and no more interest, neither
\* accumulated nor returned.
C15_MonotoneInPayment ==
  (~rows.null /\ dashboard = Interactive) =>
    \A mp \in MinPays, ex \in Extras :
      mp + ex >= minPay + extra =>
        /\ payoffOf(balance, apr, mp, ex).months <= payoff.months
        /\ payoffOf(balance, apr, mp, ex).interest <= payoff.interest
        /\ EndWith(mp, ex).interest <= EndWith(minPay, extra).interest

\* C15 witness: a larger payment that shortens the payoff and lowers the
\* interest, next to one that leaves the months at the cap
C15_Witness ==
  /\ ~rows.null /\ dashboard = Interactive
  /\ \E mp \in MinPays, ex \in Extras :
       /\ mp + ex > minPay + extra
       /\ payoffOf(balance, apr, mp, ex).months < payoff.months
       /\ payoffOf(balance, apr, mp, ex).interest < payoff.interest
  /\ \E mp \in MinPays, ex \in Extras :
       /\ mp + ex > minPay + extra
       /\ payoffOf(balance, apr, mp, ex).months = PayoffCap

\* the row of the dashboard for the CSV row r, whose date is valid
KeptRow(r) ==
  [Date |-> validateDate(r.Date).val,
   Amount |-> validateAmount(r.Amount),
   Category |-> sanitizeString(r.Category),
   Merchant |-> sanitizeString(r.Merchant),
   Account |-> sanitizeString(r.Account)]

\* the numbers of the rows of data with a valid date, and of the others
ValidAt(data) == {i \in 1..Len(data) : ~validateDate(data[i].Date).null}
InvalidAt(data) == (1..Len(data)) \ ValidAt(data)

\* the parsed file res is one that complete rejects
Rejected(res) ==
  \/ res.errors > 0
  \/ res.data = <<>>
  \/ ~({"Date", "Amount"} \subseteq res.fields)
  \/ Cardinality(InvalidAt(res.data)) > 5
  \/ ValidAt(res.data) = {}

\* rs is the valid rows of data, all of them, in the order of the file
ValidRowsInOrder(rs, data) ==
  /\ Len(rs) = Cardinality(ValidAt(data))
  /\ \A i \in ValidAt(data) :
       rs[Cardinality({j \in ValidAt(data) : j <= i})] = KeptRow(data[i])

\* a rejection: rows as it was (null: no dashboard), a message, the cache as
\* it was
Refused ==
  /\ rows' = rows /\ rows'.null
  /\ err' # "null"
  /\ storage' = storage
  /\ UNCHANGED dashVars

\* what C14 says of one step of the page
C14_Step ==
  /\ (err' = "File too large. Please upload a file smaller than 10MB."
        => Refused /\ isLoading' = FALSE)
  /\ (~pending.null /\ pending'.null) =>
       /\ isLoading' = FALSE
       /\ IF Rejected(pending.val) \/ err' = "Failed to parse CSV"
          THEN Refused
          ELSE /\ ~rows'.null
               /\ ValidRowsInOrder(rows'.val, pending.val.data)
               /\ err' = "null"
               /\ storage' \in {Stringify(rows'.val), storage}

\* C14: an upload that is rejected (over 10MB, parse errors, no row, no Date
\* or Amount column, more than 5 rows with an invalid date, no valid row)
\* leaves rows as it was, sets a message, writes nothing to the cache and
\* shows no dashboard; otherwise rows becomes exactly the valid rows, in file
\* order, and the message is cleared; isLoading is false after the callback.
C14_RejectedUploads == [][C14_Step]_vars

\* C14 witness: the page after a file with more than 5 invalid dates
C14_Witness ==
  /\ rows.null /\ pending.null /\ ~isLoading
  /\ err = "Too many validation errors"

====
